---- MODULE Spec2Model ----
(***************************************************************************)
(* Model of the upgrade_contract instruction of the Circle Integration     *)
(* program (processor/governance/upgrade_contract.rs).                     *)
(*                                                                         *)
(* One attempt is one transaction carrying the instruction.  The accounts  *)
(* the instruction writes (payer, consumed_vaa, spill, buffer,             *)
(* program_data, this_program are all `mut`) are write-locked for the      *)
(* whole transaction, so attempts run one at a time.  An attempt works on  *)
(* a private copy of the accounts (stagedVaa, stagedProgram); the copy     *)
(* replaces the ledger only when the instruction returns Ok, and is        *)
(* dropped when any step returns Err.                                      *)
(***************************************************************************)
EXTENDS Integers, Sequences, FiniteSets, TLC

(* ------------------------------ bounds -------------------------------- *)
MaxAttempts == 3

(* ----------------------------- constants ------------------------------ *)
SOLANA_CHAIN == 1

UPGRADE_SEED_PREFIX == "upgrade"

OtherChains == {2}

Chains == {SOLANA_CHAIN} \cup OtherChains

\* Pubkeys of candidate buffers / implementations named by decrees.
Keys == {170, 187}

Nonces == {0, 1}

NoAccount == [exists |-> FALSE, bump |-> 0]

(* ------------------------------ envelopes ----------------------------- *)
\* Posted VAA accounts the caller can present.  kind says how far decoding
\* gets: "malformed" fails VaaAccount::load, "nongov" loads but is not a
\* governance message, "gov" carries a governance payload.
UpgradeVaas ==
    [kind : {"gov"}, action : {"ContractUpgrade"}, chain : Chains,
     implementation : Keys, nonce : Nonces]

OtherActionVaas ==
    [kind : {"gov"}, action : {"RegisterEmitterAndDomain"}, chain : Chains,
     implementation : {0}, nonce : {0}]

BadVaas ==
    [kind : {"malformed", "nongov"}, action : {"None"}, chain : {0},
     implementation : {0}, nonce : {0}]

Vaas == UpgradeVaas \cup OtherActionVaas \cup BadVaas

KindIx(k) == CASE k = "malformed" -> 0 [] k = "nongov" -> 1 [] OTHER -> 2

ActionIx(a) ==
    CASE a = "None" -> 0 [] a = "RegisterEmitterAndDomain" -> 2 [] OTHER -> 3

\* Variant: the record is keyed by the decree's fields, not by the envelope.
Digest_DecreeOnly(v) ==
    (((KindIx(v.kind) * 4 + ActionIx(v.action)) * 4 + v.chain) * 256
        + v.implementation) * 2

\* VaaAccount::digest(): a hash of the envelope's content.  Modelled as an
\* injective encoding of every field of the envelope (nonce included), so two
\* envelopes with the same decree but different nonce have different digests.
Digest(v) ==
    (((KindIx(v.kind) * 4 + ActionIx(v.action)) * 4 + v.chain) * 256
        + v.implementation) * 2 + v.nonce

Digests == {Digest(v) : v \in Vaas}

\* VaaAccount::load(&vaa): Err when the account does not hold a posted VAA.
VaaLoad(v) == IF v.kind = "malformed" THEN "MalformedEnvelope" ELSE "Ok"

\* Canonical bump found for seeds [ConsumedVaa::SEED_PREFIX, digest].
ConsumedVaaBump(d) == 255 - (d % 3)

\* Address derived from seeds: modelled as the seeds themselves.
CreateProgramAddress(label, bump) == <<label, bump>>

AuthorityKeys ==
    {CreateProgramAddress(UPGRADE_SEED_PREFIX, b) : b \in {254, 255}}

(* ------------------------------- state -------------------------------- *)
VARIABLES
    accounts,       \* ledger: digest -> ConsumedVaa account (or NoAccount)
    programData,    \* ledger: the buffers installed as this program's executable, oldest first
    custodian,      \* ledger: Custodian account
    pc,             \* position of the attempt in flight ("idle" if none)
    tx,             \* accounts context of the attempt in flight / last attempt
    stagedVaa,      \* the attempt's copy of its consumed_vaa account
    stagedProgram,  \* the attempt's copy of the executable
    result,         \* outcome of the last finished attempt
    attempts,       \* number of attempts started
    invocations,    \* history: calls made to bpf_loader_upgradeable::upgrade
    validated,      \* history: digests whose handle_access_control returned Ok
    created,        \* history: digest -> number of records ever committed
    gate            \* history: the last attempt whose access_control gate returned Ok

vars == <<accounts, programData, custodian, pc, tx, stagedVaa, stagedProgram,
          result, attempts, invocations, validated, created, gate>>

ledger == <<accounts, programData, custodian>>

history == <<invocations, validated, created, gate>>

NoTx == [vaa |-> CHOOSE v \in BadVaas : v.kind = "malformed",
         buffer |-> 170,
         upgrade_authority |-> CreateProgramAddress(UPGRADE_SEED_PREFIX, 255),
         loaderAccepts |-> FALSE]

Init ==
    /\ accounts = [d \in Digests |-> NoAccount]
    /\ programData = <<>>
    /\ custodian = [bump |-> 253, upgrade_authority_bump |-> 255]
    /\ pc = "idle"
    /\ tx = NoTx
    /\ stagedVaa = NoAccount
    /\ stagedProgram = <<>>
    /\ result = "None"
    /\ attempts = 0
    /\ invocations = <<>>
    /\ validated = {}
    /\ created = [d \in Digests |-> 0]
    /\ gate = 0

(* ------------------------- instruction steps -------------------------- *)
\* Variant: the handler's body runs before the access_control gate.
Then_ValidateLast(p) ==
    CASE p = "init" -> "constraints"
      [] p = "constraints" -> "set_inner"
      [] p = "set_inner" -> "upgrade"
      [] p = "upgrade" -> "access_control"
      [] p = "access_control" -> "exit"
      [] OTHER -> "idle"

\* Variant: the handler never writes the record before it calls the loader.
Then_SkipSetInner(p) ==
    CASE p = "init" -> "constraints"
      [] p = "constraints" -> "access_control"
      [] p = "access_control" -> "upgrade"
      [] p = "upgrade" -> "exit"
      [] OTHER -> "idle"

\* Variant: the handler calls the loader before it writes the record.
Then_UpgradeFirst(p) ==
    CASE p = "init" -> "constraints"
      [] p = "constraints" -> "access_control"
      [] p = "access_control" -> "upgrade"
      [] p = "upgrade" -> "set_inner"
      [] p = "set_inner" -> "exit"
      [] OTHER -> "idle"

\* Order of the instruction's steps: the account constraints of the Accounts
\* struct (the `init` of consumed_vaa, then the seeds checks), the
\* access_control gate, the handler's body (set_inner, then the CPI), and the
\* write-back of the accounts when the handler returned Ok.
Then(p) ==
    CASE p = "init" -> "constraints"
      [] p = "constraints" -> "access_control"
      [] p = "access_control" -> "set_inner"
      [] p = "set_inner" -> "upgrade"
      [] p = "upgrade" -> "exit"
      [] OTHER -> "idle"

\* Variant: the error is reported but the handler returns Ok, so the
\* attempt's consumed_vaa account is written to the ledger.
Fail_Swallowed(err) ==
    /\ pc' = "idle"
    /\ result' = err
    /\ stagedVaa' = NoAccount
    /\ stagedProgram' = programData
    /\ accounts' = IF VaaLoad(tx.vaa) = "Ok"
                     THEN [accounts EXCEPT ![Digest(tx.vaa)] = stagedVaa]
                     ELSE accounts
    /\ UNCHANGED <<programData, custodian, tx, attempts>>

\* Variant: a failing attempt closes the consumed_vaa account it was given.
Fail_Closes(err) ==
    /\ pc' = "idle"
    /\ result' = err
    /\ stagedVaa' = NoAccount
    /\ stagedProgram' = programData
    /\ accounts' = IF VaaLoad(tx.vaa) = "Ok"
                     THEN [accounts EXCEPT ![Digest(tx.vaa)] = NoAccount]
                     ELSE accounts
    /\ UNCHANGED <<programData, custodian, tx, attempts>>

\* The instruction returns Err: the transaction is discarded, the ledger
\* keeps its value from before the attempt.
Fail(err) ==
    /\ pc' = "idle"
    /\ result' = err
    /\ stagedVaa' = NoAccount
    /\ stagedProgram' = programData
    /\ UNCHANGED <<ledger, tx, attempts>>

\* A caller submits the instruction with an accounts context of its choice.
\* loaderAccepts is the answer the BPF loader will give if it is called.
Submit(v, b, a, ok) ==
    /\ pc = "idle"
    /\ attempts < MaxAttempts
    /\ attempts' = attempts + 1
    /\ tx' = [vaa |-> v, buffer |-> b, upgrade_authority |-> a,
              loaderAccepts |-> ok]
    /\ pc' = "init"
    /\ stagedVaa' = IF VaaLoad(v) = "Ok" THEN accounts[Digest(v)] ELSE NoAccount
    /\ stagedProgram' = programData
    /\ UNCHANGED <<ledger, result, history>>

\* Variant: init_if_needed, an existing account is taken as it is.
InitCollides_IfNeeded(acct) == FALSE

\* Variant: only an account that was allocated but never written collides.
InitCollides_ZeroedOnly(acct) == acct.exists /\ acct.bump = 0

\* `init`: the account at the derived address must not exist yet.
InitCollides(acct) == acct.exists

\* #[account(init, seeds = [SEED_PREFIX, VaaAccount::load(&vaa)?.digest()])]
InitConsumedVaa ==
    /\ pc = "init"
    /\ IF VaaLoad(tx.vaa) # "Ok"
         THEN Fail(VaaLoad(tx.vaa))
         ELSE IF InitCollides(stagedVaa)
           THEN Fail("AlreadyConsumed")
           ELSE /\ stagedVaa' = [exists |-> TRUE, bump |-> 0]
                /\ pc' = Then(pc)
                /\ UNCHANGED <<ledger, tx, stagedProgram, result, attempts>>
    /\ UNCHANGED history

\* Variant: upgrade_authority carries no seeds constraint.
UpgradeAuthorityOk_Unchecked(key) == TRUE

\* #[account(seeds = [UPGRADE_SEED_PREFIX], bump = custodian.upgrade_authority_bump)]
UpgradeAuthorityOk(key) ==
    key = CreateProgramAddress(UPGRADE_SEED_PREFIX,
                               custodian.upgrade_authority_bump)

CheckConstraints ==
    /\ pc = "constraints"
    /\ IF UpgradeAuthorityOk(tx.upgrade_authority)
         THEN /\ pc' = Then(pc)
              /\ UNCHANGED <<ledger, tx, stagedVaa, stagedProgram, result,
                             attempts>>
         ELSE Fail("ConstraintSeeds")
    /\ UNCHANGED history

\* crate::processor::require_valid_governance_vaa
require_valid_governance_vaa(v) ==
    IF v.kind = "gov" THEN "Ok" ELSE "NotAGovernanceMessage"

\* Variant: the payload is read as an upgrade decree whatever its action.
contract_upgrade_Any(v) == TRUE

\* gov_payload.contract_upgrade(): Some only for a contract-upgrade decree.
contract_upgrade(v) == v.action = "ContractUpgrade"

\* Variant: the chain check is missing.
ChainMatches_Skipped(v) == TRUE

\* Variant: the decree's chain is compared with another chain's id.
ChainMatches_WrongChain(v) == v.chain \in OtherChains

\* require_eq!(upgrade.chain(), SOLANA_CHAIN, GovernanceForAnotherChain)
ChainMatches(v) == v.chain = SOLANA_CHAIN

\* Variant: the buffer is not compared with the decree's implementation.
ImplementationMatches_Skipped(v, b) == TRUE

\* require_keys_eq!(Pubkey::from(upgrade.implementation()), buffer.key(), ...)
ImplementationMatches(v, b) == v.implementation = b

\* Variant: the implementation is checked before the chain.
handle_access_control_ImplFirst(v, b) ==
    IF VaaLoad(v) # "Ok" THEN VaaLoad(v)
    ELSE IF require_valid_governance_vaa(v) # "Ok"
      THEN require_valid_governance_vaa(v)
    ELSE IF ~contract_upgrade(v) THEN "InvalidGovernanceAction"
    ELSE IF ~ImplementationMatches(v, b) THEN "ImplementationMismatch"
    ELSE IF ~ChainMatches(v) THEN "GovernanceForAnotherChain"
    ELSE "Ok"

\* Variant: the chain and implementation checks are joined by "or".
handle_access_control_Either(v, b) ==
    IF VaaLoad(v) # "Ok" THEN VaaLoad(v)
    ELSE IF require_valid_governance_vaa(v) # "Ok"
      THEN require_valid_governance_vaa(v)
    ELSE IF ~contract_upgrade(v) THEN "InvalidGovernanceAction"
    ELSE IF ~(ChainMatches(v) \/ ImplementationMatches(v, b))
      THEN "GovernanceForAnotherChain"
    ELSE "Ok"

handle_access_control(v, b) ==
    IF VaaLoad(v) # "Ok" THEN VaaLoad(v)
    ELSE IF require_valid_governance_vaa(v) # "Ok"
      THEN require_valid_governance_vaa(v)
    ELSE IF ~contract_upgrade(v) THEN "InvalidGovernanceAction"
    ELSE IF ~ChainMatches(v) THEN "GovernanceForAnotherChain"
    ELSE IF ~ImplementationMatches(v, b) THEN "ImplementationMismatch"
    ELSE "Ok"

\* #[access_control(handle_access_control(&ctx))]
AccessControl ==
    /\ pc = "access_control"
    /\ LET r == handle_access_control(tx.vaa, tx.buffer) IN
         IF r = "Ok"
           THEN /\ pc' = Then(pc)
                /\ validated' = validated \cup {Digest(tx.vaa)}
                /\ gate' = attempts
                /\ UNCHANGED <<ledger, tx, stagedVaa, stagedProgram, result,
                               attempts>>
           ELSE /\ Fail(r)
                /\ UNCHANGED <<validated, gate>>
    /\ UNCHANGED <<invocations, created>>

\* ctx.accounts.consumed_vaa.set_inner(ConsumedVaa { bump: ctx.bumps.consumed_vaa })
SetInner ==
    /\ pc = "set_inner"
    /\ stagedVaa' = [exists |-> TRUE,
                     bump |-> ConsumedVaaBump(Digest(tx.vaa))]
    /\ pc' = Then(pc)
    /\ UNCHANGED <<ledger, tx, stagedProgram, result, attempts, history>>

\* The arguments of the CPI to bpf_loader_upgradeable::upgrade.
UpgradeCall ==
    [attempt |-> attempts,
     vaa |-> tx.vaa,
     buffer |-> tx.buffer,
     authority |-> tx.upgrade_authority,
     signer_seeds |-> <<UPGRADE_SEED_PREFIX, custodian.upgrade_authority_bump>>,
     accepted |-> tx.loaderAccepts]

\* Variant: the CPI's result is dropped and the handler returns Ok(()).
InvokeUpgrade_ResultDropped ==
    /\ pc = "upgrade"
    /\ invocations' = Append(invocations, UpgradeCall)
    /\ stagedProgram' = IF tx.loaderAccepts
                          THEN Append(stagedProgram, tx.buffer)
                          ELSE stagedProgram
    /\ pc' = Then(pc)
    /\ UNCHANGED <<ledger, tx, stagedVaa, result, attempts, validated, created,
                   gate>>

\* bpf_loader_upgradeable::upgrade(CpiContext::new_with_signer(...))
InvokeUpgrade ==
    /\ pc = "upgrade"
    /\ invocations' = Append(invocations, UpgradeCall)
    /\ IF tx.loaderAccepts
         THEN /\ stagedProgram' = Append(stagedProgram, tx.buffer)
              /\ pc' = Then(pc)
              /\ UNCHANGED <<ledger, tx, stagedVaa, result, attempts>>
         ELSE Fail("UpgradeFailed")
    /\ UNCHANGED <<validated, created, gate>>

\* Variant: the handler also stores the bump of consumed_vaa in the custodian.
Exit_StoresBump ==
    /\ pc = "exit"
    /\ accounts' = [accounts EXCEPT ![Digest(tx.vaa)] = stagedVaa]
    /\ programData' = stagedProgram
    /\ custodian' = [custodian EXCEPT !.upgrade_authority_bump = stagedVaa.bump]
    /\ created' = [created EXCEPT ![Digest(tx.vaa)] = @ + 1]
    /\ result' = "Ok"
    /\ pc' = "idle"
    /\ stagedVaa' = NoAccount
    /\ UNCHANGED <<tx, stagedProgram, attempts, invocations, validated, gate>>

\* The instruction returned Ok: the accounts are written back and the
\* transaction's changes become the ledger.
Exit ==
    /\ pc = "exit"
    /\ accounts' = [accounts EXCEPT ![Digest(tx.vaa)] = stagedVaa]
    /\ programData' = stagedProgram
    /\ created' = [created EXCEPT ![Digest(tx.vaa)] = @ + 1]
    /\ result' = "Ok"
    /\ pc' = "idle"
    /\ stagedVaa' = NoAccount
    /\ UNCHANGED <<custodian, tx, stagedProgram, attempts, invocations,
                   validated, gate>>

Next ==
    \/ \E v \in Vaas, b \in Keys, a \in AuthorityKeys, ok \in BOOLEAN :
         Submit(v, b, a, ok)
    \/ InitConsumedVaa
    \/ CheckConstraints
    \/ AccessControl
    \/ SetInner
    \/ InvokeUpgrade
    \/ Exit

Spec == Init /\ [][Next]_vars

TypeOK ==
    /\ accounts \in [Digests -> [exists : BOOLEAN, bump : 0..255]]
    /\ programData \in Seq(Keys)
    /\ pc \in {"idle", "init", "constraints", "access_control", "set_inner",
               "upgrade", "exit"}
    /\ attempts \in 0..MaxAttempts
    /\ validated \subseteq Digests
    /\ created \in [Digests -> Nat]
    /\ gate \in 0..MaxAttempts

(* ------------------------------ vocabulary ---------------------------- *)
\* The digest of the attempt in flight (or of the last attempt).
TxDigest == Digest(tx.vaa)

\* A contract-upgrade decree addressed to this deployment's chain.
IsUpgradeForHere(v) ==
    v.kind = "gov" /\ v.action = "ContractUpgrade" /\ v.chain = SOLANA_CHAIN

CallsOf(d) == {i \in DOMAIN invocations : Digest(invocations[i].vaa) = d}

AcceptedCallsOf(d) == {i \in CallsOf(d) : invocations[i].accepted}

\* Calls made by attempt number n.
CallsIn(log, n) == {i \in DOMAIN log : log[i].attempt = n}

\* The attempt in flight was given the derived upgrade authority.
AuthorityDerived == UpgradeAuthorityOk(tx.upgrade_authority)

\* An attempt has finished and tx, result describe it.
Finished == pc = "idle" /\ attempts > 0

C2_ReplayRejected ==
    [][(pc # "idle" /\ VaaLoad(tx.vaa) = "Ok" /\ accounts[TxDigest].exists)
          => /\ pc' = "idle"
             /\ result' = "AlreadyConsumed"
             /\ UNCHANGED <<accounts, programData, custodian, invocations,
                            validated, created>>]_vars

\* A replay presented with a buffer other than the one the decree names,
\* after the record was committed and with the ledger still holding that one
\* record and one installed program.
C2_Witness ==
    /\ Finished
    /\ result = "AlreadyConsumed"
    /\ accounts[TxDigest].exists
    /\ tx.buffer # tx.vaa.implementation
    /\ tx.loaderAccepts
    /\ Len(programData) = 1
    /\ Len(invocations) = 1

(* -------------------------------- C3 ---------------------------------- *)
\* The inputs of the happy path: an envelope with no record yet, carrying a
\* contract-upgrade decree for this chain that names the supplied buffer,
\* presented with the derived authority, and a loader that accepts the call.
HappyInputs ==
    /\ IsUpgradeForHere(tx.vaa)
    /\ tx.vaa.implementation = tx.buffer
    /\ ~accounts[TxDigest].exists
    /\ AuthorityDerived
    /\ tx.loaderAccepts

\* C3: an attempt with the happy-path inputs ends with Ok, leaves exactly
\* one Consumption Record for the envelope, and has made exactly one upgrade
\* invocation, whose buffer is the decree's implementation and which
\* installed that buffer as the program.
C3_HappyPath ==
    [][(pc # "idle" /\ pc' = "idle" /\ HappyInputs)
          => /\ result' = "Ok"
             /\ accounts'[TxDigest].exists
             /\ accounts'[TxDigest].bump = ConsumedVaaBump(TxDigest)
             /\ created'[TxDigest] = 1
             /\ \E i \in DOMAIN invocations' :
                   /\ CallsIn(invocations', attempts) = {i}
                   /\ invocations'[i].vaa = tx.vaa
                   /\ invocations'[i].buffer = tx.vaa.implementation
                   /\ invocations'[i].accepted
             /\ programData' = Append(programData, tx.vaa.implementation)]_vars

C3_Witness ==
    /\ Finished
    /\ result = "Ok"
    /\ IsUpgradeForHere(tx.vaa)
    /\ accounts[TxDigest].exists
    /\ created[TxDigest] = 1
    /\ Len(programData) = 1
    /\ programData[1] = tx.vaa.implementation
    /\ Cardinality(CallsIn(invocations, attempts)) = 1

(* -------------------------------- C4 ---------------------------------- *)
\* A contract-upgrade decree addressed to another chain.
IsForeignUpgrade(v) ==
    v.kind = "gov" /\ v.action = "ContractUpgrade" /\ v.chain # SOLANA_CHAIN

\* C4: no Consumption Record ever exists for an envelope whose
\* contract-upgrade decree targets another chain, and every finished attempt
\* on such an envelope whose accounts passed the account constraints failed
\* with GovernanceForAnotherChain.
C4_Targeting ==
    /\ \A v \in Vaas :
          IsForeignUpgrade(v)
             => (~accounts[Digest(v)].exists /\ created[Digest(v)] = 0)
    /\ (Finished /\ IsForeignUpgrade(tx.vaa) /\ AuthorityDerived)
          => result = "GovernanceForAnotherChain"
    /\ (Finished /\ IsForeignUpgrade(tx.vaa)) => result # "Ok"

\* A foreign decree was rejected although it named the supplied buffer.
C4_Witness ==
    /\ Finished
    /\ IsForeignUpgrade(tx.vaa)
    /\ tx.vaa.implementation = tx.buffer
    /\ tx.loaderAccepts
    /\ result = "GovernanceForAnotherChain"

(* -------------------------------- C5 ---------------------------------- *)
\* A valid governance payload that is not a contract-upgrade decree.
IsOtherAction(v) == v.kind = "gov" /\ v.action # "ContractUpgrade"

\* C5: no Consumption Record is ever committed for an envelope whose
\* governance payload is not a contract-upgrade decree, its attempt never gets
\* past the access_control gate, and every finished attempt on such an
\* envelope whose accounts passed the account constraints failed with
\* InvalidGovernanceAction.
C5_ActionType ==
    /\ \A v \in Vaas :
          IsOtherAction(v)
             => (~accounts[Digest(v)].exists /\ created[Digest(v)] = 0)
    /\ IsOtherAction(tx.vaa) => pc \notin {"set_inner", "upgrade", "exit"}
    /\ (Finished /\ IsOtherAction(tx.vaa) /\ AuthorityDerived)
          => result = "InvalidGovernanceAction"
    /\ (Finished /\ IsOtherAction(tx.vaa)) => result # "Ok"

\* A non-upgrade payload for this very chain was rejected.
C5_Witness ==
    /\ Finished
    /\ IsOtherAction(tx.vaa)
    /\ tx.vaa.chain = SOLANA_CHAIN
    /\ result = "InvalidGovernanceAction"

(* -------------------------------- C6 ---------------------------------- *)
\* The attempt presents a contract-upgrade decree with a buffer other than
\* the implementation the decree names.
IsMismatch ==
    /\ tx.vaa.kind = "gov"
    /\ tx.vaa.action = "ContractUpgrade"
    /\ tx.vaa.implementation # tx.buffer

\* C6 as stated: every finished attempt that paired a decree with a buffer
\* other than the decree's implementation failed with ImplementationMismatch
\* (the accounts having passed the account constraints).
C6_Match_AsStated ==
    (Finished /\ IsMismatch /\ AuthorityDerived)
        => result = "ImplementationMismatch"

\* C6 (amended): an attempt that pairs a contract-upgrade decree with a
\* buffer other than the decree's implementation always fails, commits
\* nothing to the ledger and makes no upgrade invocation; it fails with
\* ImplementationMismatch when the decree is for this chain and the envelope
\* has no Consumption Record yet (a decree for another chain fails with
\* GovernanceForAnotherChain, a consumed envelope with the replay error).
C6_Match ==
    [][(pc # "idle" /\ IsMismatch)
          => /\ UNCHANGED <<accounts, programData, created, invocations>>
             /\ pc' \notin {"set_inner", "upgrade", "exit"}
             /\ pc' = "idle" =>
                   /\ result' # "Ok"
                   /\ (IsUpgradeForHere(tx.vaa) /\ ~accounts[TxDigest].exists
                         /\ AuthorityDerived)
                        => result' = "ImplementationMismatch"
                   /\ (~IsUpgradeForHere(tx.vaa) /\ AuthorityDerived)
                        => result' = "GovernanceForAnotherChain"]_vars

\* A decree for this chain, not yet consumed, was refused for its buffer
\* although the loader would have accepted the call.
C6_Witness ==
    /\ Finished
    /\ IsMismatch
    /\ IsUpgradeForHere(tx.vaa)
    /\ tx.loaderAccepts
    /\ ~accounts[TxDigest].exists
    /\ result = "ImplementationMismatch"

(* -------------------------------- C7 ---------------------------------- *)
\* The errors raised before the upgrade invocation by the decoding of the
\* envelope and by the validation of the decree.
RejectionErrors ==
    {"MalformedEnvelope", "NotAGovernanceMessage", "InvalidGovernanceAction",
     "GovernanceForAnotherChain", "ImplementationMismatch"}

\* C7: an attempt that ends in one of the rejection errors leaves no
\* Consumption Record for its envelope, has made no upgrade invocation, and
\* leaves the set of records and the program's code as they were before it.
C7_RejectionAtomic ==
    [][(pc # "idle" /\ pc' = "idle" /\ result' \in RejectionErrors)
          => /\ ~accounts'[TxDigest].exists
             /\ created'[TxDigest] = 0
             /\ CallsIn(invocations', attempts) = {}
             /\ UNCHANGED <<accounts, programData, created>>]_vars

\* A rejection that came after an upgrade had been installed: the earlier
\* record and program are still there, and nothing was added.
C7_Witness ==
    /\ Finished
    /\ result \in RejectionErrors
    /\ ~accounts[TxDigest].exists
    /\ Len(programData) = 1
    /\ Len(invocations) = 1
    /\ \E d \in Digests : accounts[d].exists

C10_AuthorisedOnly ==
    /\ \A i \in DOMAIN invocations :
          /\ IsUpgradeForHere(invocations[i].vaa)
          /\ invocations[i].buffer = invocations[i].vaa.implementation
          /\ Digest(invocations[i].vaa) \in validated
    /\ \A k \in DOMAIN programData :
          \E i \in DOMAIN invocations :
             /\ invocations[i].accepted
             /\ invocations[i].buffer = programData[k]
    /\ pc \in {"set_inner", "upgrade", "exit"}
          => (IsUpgradeForHere(tx.vaa) /\ tx.buffer = tx.vaa.implementation)

\* Two invocations for different envelopes naming different buffers.
C10_Witness ==
    \E i, j \in DOMAIN invocations :
        /\ invocations[i].buffer # invocations[j].buffer
        /\ invocations[i].accepted
        /\ invocations[j].accepted

(* -------------------------------- C11 --------------------------------- *)
\* The envelope of the attempt in flight was consumed by an earlier attempt:
\* an earlier invocation made for this very envelope was accepted.
ConsumedBefore ==
    \E i \in DOMAIN invocations :
        /\ invocations[i].vaa = tx.vaa
        /\ invocations[i].accepted
        /\ invocations[i].attempt < attempts

\* The outcome an attempt must have, given only whether its own envelope was
\* consumed before (seen) and its own accounts context t.
OwnOutcome(seen, t) ==
    IF t.vaa.kind = "malformed" THEN "MalformedEnvelope"
    ELSE IF seen THEN "AlreadyConsumed"
    ELSE IF t.upgrade_authority
              # <<UPGRADE_SEED_PREFIX, custodian.upgrade_authority_bump>>
      THEN "ConstraintSeeds"
    ELSE IF t.vaa.kind # "gov" THEN "NotAGovernanceMessage"
    ELSE IF t.vaa.action # "ContractUpgrade" THEN "InvalidGovernanceAction"
    ELSE IF t.vaa.chain # SOLANA_CHAIN THEN "GovernanceForAnotherChain"
    ELSE IF t.vaa.implementation # t.buffer THEN "ImplementationMismatch"
    ELSE IF t.loaderAccepts THEN "Ok"
    ELSE "UpgradeFailed"

\* Two envelopes that carry the same decree.
SameDecree(v, w) ==
    /\ v.kind = w.kind
    /\ v.action = w.action
    /\ v.chain = w.chain
    /\ v.implementation = w.implementation

\* C11: no step of an attempt changes the record of any envelope other
\* than its own, and the outcome of an attempt is fixed by its own envelope
\* (consumed before or not), decree and accounts, whatever records other
\* envelopes have; so an envelope carrying the same decree as a consumed
\* one is still consumed on its own.
C11_Independent ==
    [][pc # "idle"
          => /\ \A v \in Vaas \ {tx.vaa} :
                   /\ accounts'[Digest(v)] = accounts[Digest(v)]
                   /\ created'[Digest(v)] = created[Digest(v)]
             /\ pc' = "idle" => result' = OwnOutcome(ConsumedBefore, tx)]_vars

\* Two different envelopes with the same decree have both been consumed.
C11_Witness ==
    /\ Finished
    /\ result = "Ok"
    /\ accounts[TxDigest].exists
    /\ \E w \in UpgradeVaas :
          /\ w # tx.vaa
          /\ SameDecree(w, tx.vaa)
          /\ Digest(w) # TxDigest
          /\ accounts[Digest(w)].exists
    /\ Len(programData) = 2

(* -------------------------------- C12 --------------------------------- *)
\* The record as the attempt in flight has it once init and set_inner ran.
WrittenRecord == [exists |-> TRUE, bump |-> ConsumedVaaBump(TxDigest)]

\* C12: when the upgrade invocation is made, the attempt has already
\* created its Consumption Record (allocated by init and written by
\* set_inner) and that record is not yet in the ledger; when a record enters
\* the ledger, the access_control gate of the same attempt has returned Ok
\* before, and the invocation of the same attempt has been made before; the
\* handler writes the record only after that gate has returned Ok.
C12_StepOrder ==
    [][/\ invocations' # invocations
            => /\ stagedVaa = WrittenRecord
               /\ gate = attempts
               /\ TxDigest \in validated
               /\ ~accounts[TxDigest].exists
       /\ accounts' # accounts
            => /\ gate = attempts
               /\ TxDigest \in validated
               /\ CallsIn(invocations, attempts) # {}
               /\ accounts' = [accounts EXCEPT ![TxDigest] = WrittenRecord]
       /\ (pc # "idle" /\ stagedVaa' # stagedVaa /\ stagedVaa' = WrittenRecord)
            => gate = attempts]_vars

\* An invocation made in a second attempt on an envelope whose first
\* attempt the loader rejected, the record written and not yet committed.
C12_Witness ==
    /\ pc = "exit"
    /\ attempts = 2
    /\ gate = 2
    /\ stagedVaa = WrittenRecord
    /\ ~accounts[TxDigest].exists
    /\ Cardinality(CallsOf(TxDigest)) = 2

(* -------------------------------- C13 --------------------------------- *)
\* The errors of the decree validation in handle_access_control.
ValidationErrors ==
    {"NotAGovernanceMessage", "InvalidGovernanceAction",
     "GovernanceForAnotherChain", "ImplementationMismatch"}

\* C13: an attempt on an envelope that already has a Consumption Record
\* stops at the creation of the record: it is never at a later step, the
\* access_control gate does not run for it, and it reports the replay error,
\* never an error of the decree validation, whatever buffer comes with it.
C13_ReplayFirst ==
    [][(pc # "idle" /\ VaaLoad(tx.vaa) = "Ok" /\ accounts[TxDigest].exists)
          => /\ pc = "init"
             /\ pc' = "idle"
             /\ gate' = gate
             /\ gate < attempts
             /\ validated' = validated
             /\ result' \notin ValidationErrors
             /\ result' = "AlreadyConsumed"]_vars

\* A replay whose buffer the validation would have refused, and whose
\* upgrade authority the seeds constraint would have refused, reported as a
\* replay.
C13_Witness ==
    /\ Finished
    /\ accounts[TxDigest].exists
    /\ handle_access_control(tx.vaa, tx.buffer) = "ImplementationMismatch"
    /\ ~AuthorityDerived
    /\ gate < attempts
    /\ result = "AlreadyConsumed"

(* -------------------------------- C14 --------------------------------- *)
\* An earlier attempt on the envelope of the last attempt reached the
\* upgrade invocation.
EarlierCall(i) ==
    /\ invocations[i].vaa = tx.vaa
    /\ invocations[i].attempt < attempts

C15_Tombstone ==
    [][\A d \in Digests :
          /\ accounts[d].exists
                => (accounts'[d] = accounts[d] /\ created'[d] = created[d])
          /\ accounts'[d].exists
                => accounts'[d] = [exists |-> TRUE, bump |-> ConsumedVaaBump(d)]]_vars

\* The record committed by the first attempt is still there after a second
\* attempt on another envelope and a replay of the first with another buffer.
C15_Witness ==
    /\ Finished
    /\ attempts = 3
    /\ result = "AlreadyConsumed"
    /\ tx.buffer # tx.vaa.implementation
    /\ Len(invocations) = 2
    /\ invocations[1].attempt = 1
    /\ invocations[1].accepted
    /\ invocations[1].vaa = tx.vaa
    /\ invocations[2].attempt = 2
    /\ accounts[TxDigest] = [exists |-> TRUE, bump |-> ConsumedVaaBump(TxDigest)]

(* -------------------------------- C16 --------------------------------- *)
\* The status of envelope v while no attempt is in flight: Upgraded when its
\* record is in the ledger; for the envelope of the last attempt, what that
\* attempt ended in; for any other envelope, FailedAfterRecord when the loader
\* rejected an invocation for it, and Unseen otherwise.
IdleStatus(v) ==
    IF accounts[Digest(v)].exists THEN "Upgraded"
    ELSE IF attempts > 0 /\ v = tx.vaa
      THEN (IF result = "UpgradeFailed" THEN "FailedAfterRecord"
            ELSE "Rejected")
    ELSE IF \E i \in DOMAIN invocations :
               invocations[i].vaa = v /\ ~invocations[i].accepted
      THEN "FailedAfterRecord"
    ELSE "Unseen"

\* The status of the envelope of the attempt in flight (or last attempt).
TxStatus ==
    IF pc = "idle" THEN IdleStatus(tx.vaa)
    ELSE IF accounts[TxDigest].exists THEN "Upgraded"
    ELSE CASE pc \in {"init", "constraints", "access_control"} -> "Validating"
           [] pc = "set_inner" -> "Recorded"
           [] pc = "upgrade" -> "Upgrading"
           [] OTHER -> "Upgraded"

\* The moves of the state machine within one attempt.
StatusMove(a, b) ==
    \/ a = b /\ a \in {"Validating", "Upgraded"}
    \/ a = "Validating" /\ b \in {"Rejected", "Recorded"}
    \/ a = "Recorded" /\ b = "Upgrading"
    \/ a = "Upgrading" /\ b \in {"Upgraded", "FailedAfterRecord"}

\* What the status machine asks of one step, given the statuses from which a
\* new attempt may take an envelope to Validating.
StatusStep(retryable) ==
    /\ (pc # "idle") => StatusMove(TxStatus, TxStatus')
    /\ (pc = "idle" /\ pc' # "idle")
          => \/ IdleStatus(tx'.vaa) \in retryable /\ TxStatus' = "Validating"
             \/ IdleStatus(tx'.vaa) = "Upgraded" /\ TxStatus' = "Upgraded"
    /\ (TxStatus' = "Upgraded" /\ TxStatus = "Upgrading") => tx.loaderAccepts
    /\ (TxStatus' \in {"Rejected", "FailedAfterRecord"})
          => ~accounts'[Digest(tx'.vaa)].exists
    /\ \A v \in Vaas :
          IdleStatus(v) = "Upgraded"
             => /\ accounts'[Digest(v)].exists
                /\ \A i \in DOMAIN invocations' :
                      invocations'[i].vaa = v => i \in DOMAIN invocations

C17_CheckOrder ==
    (/\ Finished
     /\ VaaLoad(tx.vaa) = "Ok"
     /\ AuthorityDerived
     /\ result # "AlreadyConsumed")
        => /\ tx.vaa.kind # "gov" => result = "NotAGovernanceMessage"
           /\ IsOtherAction(tx.vaa) => result = "InvalidGovernanceAction"
           /\ IsForeignUpgrade(tx.vaa) => result = "GovernanceForAnotherChain"
           /\ (IsUpgradeForHere(tx.vaa) /\ tx.vaa.implementation # tx.buffer)
                 => result = "ImplementationMismatch"
           /\ (IsUpgradeForHere(tx.vaa) /\ tx.vaa.implementation = tx.buffer)
                 => /\ result \in {"Ok", "UpgradeFailed"}
                    /\ CallsIn(invocations, attempts) # {}

\* A decree for another chain presented with a buffer it does not name:
\* both checks would fail, and the chain error is the one reported.
C17_Witness ==
    /\ Finished
    /\ AuthorityDerived
    /\ IsForeignUpgrade(tx.vaa)
    /\ tx.vaa.implementation # tx.buffer
    /\ result = "GovernanceForAnotherChain"

(* -------------------------------- C18 --------------------------------- *)
\* The identity derived from the fixed label and the custodian's stored bump.
DerivedAuthority ==
    <<UPGRADE_SEED_PREFIX, custodian.upgrade_authority_bump>>

\* C18: every upgrade invocation names as authority the identity derived
\* from UPGRADE_SEED_PREFIX and the custodian's upgrade_authority_bump and is
\* signed with exactly those seeds; an attempt whose upgrade_authority account
\* is another key never gets to the access_control gate or the handler, ends
\* in an error, leaves no Consumption Record and makes no invocation.
C18_AuthorityGate ==
    [][/\ \A i \in DOMAIN invocations' :
             /\ invocations'[i].authority = DerivedAuthority
             /\ invocations'[i].signer_seeds = DerivedAuthority
       /\ (pc # "idle" /\ tx.upgrade_authority # DerivedAuthority)
            => /\ UNCHANGED <<accounts, programData, created, invocations,
                              validated, gate>>
               /\ pc' \in {"constraints", "idle"}
               /\ pc' = "idle"
                    => /\ result' \in {"MalformedEnvelope", "AlreadyConsumed",
                                       "ConstraintSeeds"}
                       /\ ~accounts[TxDigest].exists
                             => (result' # "AlreadyConsumed"
                                 /\ ~accounts'[TxDigest].exists)]_vars

\* An attempt that had everything right except the upgrade_authority account
\* was refused by the seeds constraint and left no record.
C18_Witness ==
    /\ Finished
    /\ IsUpgradeForHere(tx.vaa)
    /\ tx.buffer = tx.vaa.implementation
    /\ tx.loaderAccepts
    /\ tx.upgrade_authority # DerivedAuthority
    /\ result = "ConstraintSeeds"
    /\ ~accounts[TxDigest].exists
    /\ CallsOf(TxDigest) = {}

(* -------------------------------- C19 --------------------------------- *)
\* C19: no step of any attempt, whether it succeeds, is rejected or fails
\* at the loader, changes the custodian (its bump and its
\* upgrade_authority_bump), and every invocation, old or new, carries the
\* signer seeds derived from that same configuration.
C19_ConfigReadOnly ==
    [][/\ custodian' = custodian
       /\ \A i \in DOMAIN invocations' :
             invocations'[i].signer_seeds
                = <<UPGRADE_SEED_PREFIX, custodian'.upgrade_authority_bump>>]_vars

\* Three attempts have finished: the first upgraded the program, the second
\* made no invocation, the third was rejected by the loader.
C19_Witness ==
    /\ Finished
    /\ attempts = 3
    /\ result = "UpgradeFailed"
    /\ Len(programData) = 1
    /\ Len(invocations) = 2
    /\ invocations[1].attempt = 1
    /\ invocations[1].accepted
    /\ invocations[2].attempt = 3
    /\ ~invocations[2].accepted
    /\ invocations[1].signer_seeds = invocations[2].signer_seeds

====
